---- MODULE Spec2Model ----
(***************************************************************************)
(* Multi-layer adaptive-threshold expansion search of memo-brain           *)
(* (cli/src/service/search.rs, types/src/models.rs, cli/src/rerank).       *)
(*                                                                         *)
(* One search is modelled as a state machine whose steps are the pieces of *)
(* multi_layer_search between two awaits.  The vector store and the        *)
(* reranker are collaborators: every call draws its answer from a bounded  *)
(* set of answers.                                                         *)
(***************************************************************************)
EXTENDS Integers, Sequences, FiniteSets, TLC

\* ------------------------------------------------------------------ bounds

\* Number of memories in the store (ids are 1..NumIds).
NumIds == 3

\* Scaled-down stand-ins for the literals of search.rs:101, chosen so that the
\* budget is reached with NumIds memories.  The code reads
\*   max_nodes = if limit < 10 { 50 } else { limit * 10 }
\* and the model IF limit < LimitCut THEN SmallBudget ELSE limit * BudgetFactor.
\* The code's order 50 >= branch_limit is kept: SmallBudget >= BranchLimit.
LimitCut == 2
SmallBudget == 2
BudgetFactor == 2

\* The longest list the store answers with (never more than the limit asked).
MaxAnswerLen == 3

\* The longest list the reranker answers with.
MaxRerankLen == 2

\* The inputs of generate_thresholds called on its own: max_depth is
\* 0..MaxDepthInput, and first_threshold runs over a grid of f32 values, a
\* multiple of 2^-9 from -GridBelowZero * 2^-9 to GridAboveZero * 2^-9 (-1.0 to
\* 1.25), besides the f32 infinities and a list of decimal literals.
MaxDepthInput == 7
GridBelowZero == 512
GridAboveZero == 640

\* ------------------------------------------------------ program constants

\* TreeSearchConfig::default().max_depth
DefaultMaxDepth == 5

\* TreeSearchConfig::default().max_nodes
DefaultMaxNodes == 100

\* TreeSearchConfig::default().branch_limit.  The source has 5; the model runs
\* the same code with 2, the smallest value with sibling branches and with
\* answers longer than a branch keeps.
BranchLimit == 2

\* -------------------------------------------------------------- f32 values
\* An f32 is written as the integer v * 2^29; every f32 in [2^-5, 2) is such
\* an integer, and so is every sum or difference of two such integers that is
\* smaller than 2^-5 (it has at most 24 significant bits).  Literals are the
\* nearest f32 of the decimal literal.

F32_0_10 == 53687092
F32_0_07 == 37580964
F32_0_05 == 26843546
F32_0_03 == 16106127
F32_0_95 == 510027360
F32_0_65 == 348966080
F32_0_75 == 402653184
F32_0_85 == 456340288

\* TreeSearchConfig::default().first_threshold (0.60), the first_threshold of
\* test_near_limit_threshold (0.93) and the tolerance of
\* test_high_start_threshold (0.001, rounded down to a multiple of 2^-29).
F32_0_60 == 322122560
F32_0_93 == 499289952
F32_0_001 == 536870

Pow2[n \in Nat] == IF n = 0 THEN 1 ELSE 2 * Pow2[n - 1]

\* The exponent e with 2^e <= n < 2^(e+1), for n >= 1.
Log2Floor[n \in Nat] == IF n <= 1 THEN 0 ELSE 1 + Log2Floor[n \div 2]

\* Round a non-negative real n * 2^-29 to the nearest f32 (24-bit mantissa),
\* ties to even: the rounding of every f32 addition and subtraction.
RoundF32(n) ==
    IF n < Pow2[24] THEN n
    ELSE LET g == Pow2[Log2Floor[n] - 23]
             q == n \div g
             r == n % g
         IN  IF 2 * r < g THEN q * g
             ELSE IF 2 * r > g THEN (q + 1) * g
             ELSE IF q % 2 = 0 THEN q * g ELSE (q + 1) * g

\* The two infinities of f32, as integers below and above every finite value
\* written here (finite values lie strictly between -2.0 and 2.0), so that <
\* and > compare them as f32 does.
F32_INFINITY == Pow2[30]
F32_NEG_INFINITY == 0 - Pow2[30]

F32IsFinite(a) == F32_NEG_INFINITY < a /\ a < F32_INFINITY

\* Rounding is symmetric in the sign.
RoundSigned(n) == IF n >= 0 THEN RoundF32(n) ELSE 0 - RoundF32(0 - n)

\* a + b in f32; an infinity absorbs every finite value.  (inf + -inf is NaN
\* and does not occur: the increments are finite.)
F32Add(a, b) ==
    IF ~F32IsFinite(a) THEN a
    ELSE IF ~F32IsFinite(b) THEN b
    ELSE RoundSigned(a + b)

\* a - b in f32, for finite a.
F32Sub(a, b) ==
    IF b = F32_NEG_INFINITY THEN F32_INFINITY
    ELSE IF b = F32_INFINITY THEN F32_NEG_INFINITY
    ELSE RoundSigned(a - b)

\* ---------------------------------------------------------- SearchConfig

\* Mutant of calculate_increment: the cutoffs of the bands are inclusive.
calculate_incrementInclusive(current_threshold) ==
    IF current_threshold <= F32_0_65 THEN F32_0_10
    ELSE IF current_threshold <= F32_0_75 THEN F32_0_07
    ELSE IF current_threshold <= F32_0_85 THEN F32_0_05
    ELSE F32_0_03

\* Mutant of calculate_increment: the increments of the two middle bands are
\* exchanged.
calculate_incrementSwapped(current_threshold) ==
    IF current_threshold < F32_0_65 THEN F32_0_10
    ELSE IF current_threshold < F32_0_75 THEN F32_0_05
    ELSE IF current_threshold < F32_0_85 THEN F32_0_07
    ELSE F32_0_03

\* Mutant of calculate_increment: the last band steps by a tenth of 0.03.
calculate_incrementSmallLast(current_threshold) ==
    IF current_threshold < F32_0_65 THEN F32_0_10
    ELSE IF current_threshold < F32_0_75 THEN F32_0_07
    ELSE IF current_threshold < F32_0_85 THEN F32_0_05
    ELSE F32_0_03 \div 10

\* TreeSearchConfig::calculate_increment
calculate_increment(current_threshold) ==
    IF current_threshold < F32_0_65 THEN F32_0_10
    ELSE IF current_threshold < F32_0_75 THEN F32_0_07
    ELSE IF current_threshold < F32_0_85 THEN F32_0_05
    ELSE F32_0_03

\* Mutant of ThresholdLoop: the length test is off by one (<= max_depth).
RECURSIVE ThresholdLoopOffByOne(_, _, _)
ThresholdLoopOffByOne(thresholds, current, max_depth) ==
    IF ~(Len(thresholds) <= max_depth /\ current < F32_0_95) THEN thresholds
    ELSE LET increment == calculate_increment(current)
             next == F32Add(current, increment)
         IN  IF next > F32_0_95
             THEN IF F32Sub(F32_0_95, current) >= F32_0_03
                  THEN Append(thresholds, F32_0_95)
                  ELSE thresholds
             ELSE ThresholdLoopOffByOne(Append(thresholds, next), next, max_depth)

\* Mutant of ThresholdLoop: current is pushed instead of next.
RECURSIVE ThresholdLoopPushCurrent(_, _, _)
ThresholdLoopPushCurrent(thresholds, current, max_depth) ==
    IF ~(Len(thresholds) < max_depth /\ current < F32_0_95) THEN thresholds
    ELSE LET increment == calculate_increment(current)
             next == F32Add(current, increment)
         IN  IF next > F32_0_95
             THEN IF F32Sub(F32_0_95, current) >= F32_0_03
                  THEN Append(thresholds, F32_0_95)
                  ELSE thresholds
             ELSE ThresholdLoopPushCurrent(Append(thresholds, current), next, max_depth)

\* Mutant of ThresholdLoop: next is pushed without the test against 0.95.
RECURSIVE ThresholdLoopNoCap(_, _, _)
ThresholdLoopNoCap(thresholds, current, max_depth) ==
    IF ~(Len(thresholds) < max_depth /\ current < F32_0_95) THEN thresholds
    ELSE LET increment == calculate_increment(current)
             next == F32Add(current, increment)
         IN  ThresholdLoopNoCap(Append(thresholds, next), next, max_depth)

\* Mutant of ThresholdLoop: 0.95 is appended whatever the remaining gap.
RECURSIVE ThresholdLoopAlwaysCap(_, _, _)
ThresholdLoopAlwaysCap(thresholds, current, max_depth) ==
    IF ~(Len(thresholds) < max_depth /\ current < F32_0_95) THEN thresholds
    ELSE LET increment == calculate_increment(current)
             next == F32Add(current, increment)
         IN  IF next > F32_0_95
             THEN Append(thresholds, F32_0_95)
             ELSE ThresholdLoopAlwaysCap(Append(thresholds, next), next, max_depth)

\* The while loop of generate_thresholds, from the state (thresholds, current).
RECURSIVE ThresholdLoop(_, _, _)
ThresholdLoop(thresholds, current, max_depth) ==
    IF ~(Len(thresholds) < max_depth /\ current < F32_0_95) THEN thresholds
    ELSE LET increment == calculate_increment(current)
             next == F32Add(current, increment)
         IN  IF next > F32_0_95
             THEN IF F32Sub(F32_0_95, current) >= F32_0_03
                  THEN Append(thresholds, F32_0_95)
                  ELSE thresholds
             ELSE ThresholdLoop(Append(thresholds, next), next, max_depth)

\* TreeSearchConfig::generate_thresholds
generate_thresholds(first_threshold, max_depth) ==
    ThresholdLoop(<<first_threshold>>, first_threshold, max_depth)

\* TreeSearchConfig::new(first_threshold, max_nodes): the other fields are
\* the defaults.
SearchConfigNew(first_threshold, max_nodes) ==
    [first_threshold |-> first_threshold,
     max_depth |-> DefaultMaxDepth,
     max_nodes |-> max_nodes,
     branch_limit |-> BranchLimit,
     require_tag_overlap |-> TRUE]

\* let max_nodes = if limit < 10 { 50 } else { limit * 10 };
MaxNodesFor(lim) == IF lim < LimitCut THEN SmallBudget ELSE lim * BudgetFactor

Min(a, b) == IF a <= b THEN a ELSE b

\* --------------------------------------------------------------- time range

\* Option<T>: None and Some(v).
None == [some |-> FALSE, value |-> <<>>]
Some(v) == [some |-> TRUE, value |-> <<v>>]
Unwrap(o) == o.value[1]

\* Result<i64>: Ok(ts) and Err.
Ok(v) == [ok |-> TRUE, value |-> v]
Err == [ok |-> FALSE, value |-> 0]

\* The text of an --after / --before option, by its fields: the three numbers
\* of the date and the character between them, and the two numbers of the
\* time when the text has a time part ("2024-01-15 10:30" is
\* DateTimeText(2024, 1, 15, "-", 10, 30)).
DateText(y, m, d, sep) == [date |-> <<y, m, d>>, sep |-> sep, time |-> <<>>]
DateTimeText(y, m, d, sep, h, mi) == [date |-> <<y, m, d>>, sep |-> sep, time |-> <<h, mi>>]

IsLeapYear(y) == (y % 4 = 0 /\ y % 100 # 0) \/ y % 400 = 0

DaysInMonth(y, m) ==
    IF m = 2 THEN (IF IsLeapYear(y) THEN 29 ELSE 28)
    ELSE IF m \in {4, 6, 9, 11} THEN 30 ELSE 31

\* The text has the shape %Y-%m-%d and names a day of the calendar.
IsNaiveDate(text) ==
    /\ text.sep = "-"
    /\ text.date[2] \in 1..12
    /\ text.date[3] \in 1..DaysInMonth(text.date[1], text.date[2])

\* Days from 1970-01-01 to the day y-m-d.
DaysFromEpoch(y, m, d) ==
    LET yy == IF m <= 2 THEN y - 1 ELSE y
        era == yy \div 400
        yoe == yy - era * 400
        mp == IF m > 2 THEN m - 3 ELSE m + 9
        doy == (153 * mp + 2) \div 5 + d - 1
        doe == yoe * 365 + yoe \div 4 - yoe \div 100 + doy
    IN  era * 146097 + doe - 719468

\* and_utc().timestamp_millis(), in minutes (one unit is 60000 ms).
TimestampMinutes(date, h, mi) ==
    DaysFromEpoch(date[1], date[2], date[3]) * 1440 + h * 60 + mi

\* parse_datetime: "%Y-%m-%d %H:%M" first, then "%Y-%m-%d" at 00:00, else
\* the error "Invalid date format".
parse_datetime(input) ==
    IF /\ Len(input.time) = 2
       /\ IsNaiveDate(input)
       /\ input.time[1] \in 0..23
       /\ input.time[2] \in 0..59
    THEN Ok(TimestampMinutes(input.date, input.time[1], input.time[2]))
    ELSE IF input.time = <<>> /\ IsNaiveDate(input)
         THEN Ok(TimestampMinutes(input.date, 0, 0))
         ELSE Err

\* s.map(|s| parse_datetime(s)).transpose(): Ok(None), Ok(Some(ts)) or Err.
ParseBound(bound) ==
    IF ~bound.some THEN Ok(None)
    ELSE LET r == parse_datetime(Unwrap(bound))
         IN  IF r.ok THEN Ok(Some(r.value)) ELSE Err

\* The value of time_range (search.rs:113-122) when both ? pass.
TimeRangeOf(after_opt, before_opt) ==
    IF after_opt.some \/ before_opt.some
    THEN Some([after |-> ParseBound(after_opt).value,
               before |-> ParseBound(before_opt).value])
    ELSE None

\* Mutant of TimeRangeParses: an error of the before bound is dropped.
TimeRangeParsesAfterOnly(after_opt, before_opt) ==
    (after_opt.some \/ before_opt.some) => ParseBound(after_opt).ok

\* Neither ? of search.rs:114-115 returns an error.
TimeRangeParses(after_opt, before_opt) ==
    (after_opt.some \/ before_opt.some) =>
        ParseBound(after_opt).ok /\ ParseBound(before_opt).ok

\* ------------------------------------------------------------ collaborators

Ids == 1..NumIds

\* The tags of the stored memories, two stores: in "uniform" every memory
\* has the tag a; in "mixed" memory 1 has {a}, 2 has {a, b}, 3 has no tag, 4
\* has {b}, and so on, so that pairs with and without a common tag and a
\* memory without tags occur.
MixedTags(id) ==
    CASE id % 4 = 1 -> {"a"}
      [] id % 4 = 2 -> {"a", "b"}
      [] id % 4 = 3 -> {}
      [] OTHER -> {"b"}

TagTables == {[id \in Ids |-> {"a"}], [id \in Ids |-> MixedTags(id)]}

\* The content of the stored memories: memories 1 and 2 hold the same text.
ContentOf(id) == IF id <= 2 THEN "alpha" ELSE IF id % 2 = 1 THEN "beta" ELSE "gamma"

\* The projection of a stored memory that search_by_vector returns; its
\* score is the similarity.
StoreResult(table, id) ==
    [id |-> id, tags |-> table[id], score |-> "similarity", content |-> ContentOf(id)]

\* The stored memory that find_memory_by_id returns.
StoreMemory(table, id) == [id |-> id, tags |-> table[id]]

\* The place of a task's memory before the lookup has answered Some(m).
NoMemory == [id |-> 0, tags |-> {}]

SeqsUpTo(S, n) == UNION {[1..k -> S] : k \in 0..n}

\* Every Ok answer of search_by_vector(vector, limit, min_score, time_range):
\* at most limit results, in any order, an id possibly repeated.
SearchAnswers(table, lim) ==
    {[k \in DOMAIN ids |-> StoreResult(table, ids[k])] :
        ids \in SeqsUpTo(Ids, Min(lim, MaxAnswerLen))}

\* The scores a reranker gives.
RerankScores == {"r1", "r2"}

\* Every Ok answer of rerank(query, documents, top_n): items (index, score);
\* the index NumIds is past the end of every candidate list.
RerankAnswers ==
    SeqsUpTo([index : 0..NumIds, score : RerankScores], MaxRerankLen)

\* --------------------------------------------------------------------- state

\* first_threshold of the user, as f32: 0.60, 0.90, 0.93 (five layers, two
\* layers, one layer).
ThresholdInputs == {322122560, 483183808, 499289952}

\* --limit of the user: below LimitCut and not below it.
LimitInputs == {1, 2}

\* --after of the user: not given, "2024-01-15 10:30", "2024-02-30" (no such
\* day).
AfterInputs ==
    {None, Some(DateTimeText(2024, 1, 15, "-", 10, 30)), Some(DateText(2024, 2, 30, "-"))}

\* --before of the user: not given, "2024-02-29", "2024/03/01 24:00" (neither
\* format).
BeforeInputs ==
    {None, Some(DateText(2024, 2, 29, "-")), Some(DateTimeText(2024, 3, 1, "/", 24, 0))}

VARIABLES
    stored_tags,            \* the store: the tags of each stored memory
    pc,                     \* where multi_layer_search stands
    limit,                  \* params.limit
    threshold,              \* params.threshold
    after,                  \* params.after: Option<String>
    before,                 \* params.before: Option<String>
    visited,                \* HashSet of ids
    all_candidates,         \* Vec<QueryResult>
    current_layer_results,  \* Vec<QueryResult>
    layer_index,            \* the loop variable of the layer loop
    tasks,                  \* search_tasks of the current layer, by position
    first_finished,         \* position of the task that finished first (0: none yet)
    reranked,               \* the items the reranker answered
    final_results,          \* Vec<QueryResult> handed to output.search_results
    emitted,                \* what was shown: "none", "no_results", "search_results"
    found_layer,            \* per candidate: the layer (1-based) that accepted it
    found_by,               \* per candidate: the seed id of its branch (0: layer 1)
    search_calls,           \* number of search_by_vector calls issued
    find_calls,             \* number of find_memory_by_id calls issued
    rerank_calls,           \* number of rerank calls issued
    rerank_reply,           \* what the rerank call returned: "none" (not called), "failed", "answered"
    time_range_args,        \* the time_range arguments of the search_by_vector calls issued
    layer1_reply,           \* what the layer-1 search_by_vector call returned: "none" (not called), "failed", "answered"
    found_task,             \* per candidate: the position of its branch task in its layer (0: layer 1)
    documents,              \* the documents argument of the rerank call
    scheduler_config,       \* the TreeSearchConfig whose generate_thresholds is called on its own
    scheduler_pc,           \* that call: "idle", "called", "returned"
    scheduler_thresholds,   \* the Vec<f32> that call returned
    branch_pc,              \* one branch on its own: "idle", "called", "returned", "merged"
    branch_call,            \* that branch: its seed, the candidates accepted before it, the store's answer
    branch_related,         \* what the task of that branch returned
    branch_merged           \* the merge state after that branch

\* The variables of a call of generate_thresholds on its own.
scheduler_vars == <<scheduler_config, scheduler_pc, scheduler_thresholds>>

\* The variables of one search.
search_vars == <<stored_tags, pc, limit, threshold, after, before, visited,
                 all_candidates, current_layer_results, layer_index, tasks,
                 first_finished, reranked, final_results, emitted, found_layer,
                 found_by, search_calls, find_calls, rerank_calls, rerank_reply,
                 time_range_args, layer1_reply, found_task, documents>>

\* The variables of one branch on its own.
branch_vars == <<branch_pc, branch_call, branch_related, branch_merged>>

vars == <<search_vars, scheduler_vars, branch_vars>>

\* The inputs of one search: the store and the parameters.
inputs == <<stored_tags, limit, threshold, after, before>>

\* The locals computed before the first await (search.rs:101-104).
max_nodes == MaxNodesFor(limit)
search_config == SearchConfigNew(threshold, max_nodes)
thresholds == generate_thresholds(search_config.first_threshold, search_config.max_depth)
max_layers == Min(Len(thresholds), search_config.max_depth)
time_range == TimeRangeOf(after, before)

\* No call of generate_thresholds on its own.
SchedulerIdle ==
    /\ scheduler_config = SearchConfigNew(0, 0)
    /\ scheduler_pc = "idle"
    /\ scheduler_thresholds = <<>>

\* No branch on its own.
BranchIdle ==
    /\ branch_pc = "idle"
    /\ branch_call = [seed |-> 0, cands |-> <<>>, answer |-> <<>>]
    /\ branch_related = <<>>
    /\ branch_merged = [visited |-> {}, cands |-> <<>>, next |-> <<>>, by |-> <<>>]

\* The locals of multi_layer_search at its entry.
SearchEntry ==
    /\ pc = "start"
    /\ visited = {}
    /\ all_candidates = <<>>
    /\ current_layer_results = <<>>
    /\ layer_index = 0
    /\ tasks = <<>>
    /\ first_finished = 0
    /\ reranked = <<>>
    /\ final_results = <<>>
    /\ emitted = "none"
    /\ found_layer = <<>>
    /\ found_by = <<>>
    /\ search_calls = 0
    /\ find_calls = 0
    /\ rerank_calls = 0
    /\ rerank_reply = "none"
    /\ time_range_args = {}
    /\ layer1_reply = "none"
    /\ found_task = <<>>
    /\ documents = <<>>

\* A search without --after and --before, over every store, limit and
\* threshold.
Init ==
    /\ stored_tags \in TagTables
    /\ limit \in LimitInputs
    /\ threshold \in ThresholdInputs
    /\ after = None
    /\ before = None
    /\ SearchEntry
    /\ SchedulerIdle
    /\ BranchIdle

\* ------------------------------------------------------------ the branch task

\* A search task as built by the closure of search.rs:171-206, not yet polled.
NewTask(result) ==
    [seed |-> result.id, pc |-> "lookup", memory |-> NoMemory, ok |-> TRUE,
     related |-> <<>>]

\* let search_tasks: Vec<_> = current_layer_results.iter().map(..).collect();
SpawnTasks(cur) == [j \in DOMAIN cur |-> NewTask(cur[j])]

\* Mutant of RetainTagOverlap: the filter keeps every result.
RetainEverything(related, memory) == related

\* related.retain(|r| r.tags.iter().any(|t| memory.tags.contains(t)));
RetainTagOverlap(related, memory) ==
    SelectSeq(related, LAMBDA r : \E t \in r.tags : t \in memory.tags)

\* Mutant of Truncate: one entry too many is kept.
TruncateKeepsOneMore(s, n) == SubSeq(s, 1, Min(n + 1, Len(s)))

\* related.truncate(branch_limit);
Truncate(s, n) == SubSeq(s, 1, Min(n, Len(s)))

\* Mutant of BranchRelated: the tag filter starts one layer later.
BranchRelatedFilterLater(li, memory, answer) ==
    LET filtered == IF li >= 2 /\ search_config.require_tag_overlap
                    THEN RetainTagOverlap(answer, memory)
                    ELSE answer
    IN  Truncate(filtered, search_config.branch_limit)

\* Mutant of BranchRelated: the ids accepted before the branch are removed
\* before the list is cut.
BranchRelatedDedupFirst(li, memory, answer) ==
    LET filtered == IF li >= 1 /\ search_config.require_tag_overlap
                    THEN RetainTagOverlap(answer, memory)
                    ELSE answer
        seen == visited \cup {branch_call.cands[k].id : k \in DOMAIN branch_call.cands}
        fresh == SelectSeq(filtered, LAMBDA r : r.id \notin seen)
    IN  Truncate(fresh, search_config.branch_limit)

\* What a branch task returns from the store's answer (search.rs:196-204).
BranchRelated(li, memory, answer) ==
    LET filtered == IF li >= 1 /\ search_config.require_tag_overlap
                    THEN RetainTagOverlap(answer, memory)
                    ELSE answer
    IN  Truncate(filtered, search_config.branch_limit)

\* The task at position j has finished with Ok(related) or Err.
Finish(j, ok, related) ==
    /\ tasks' = [tasks EXCEPT ![j].pc = "done", ![j].ok = ok, ![j].related = related]
    /\ first_finished' = IF first_finished = 0 THEN j ELSE first_finished

\* Mutant of BranchTimeRange: the deeper layers search without a time filter.
BranchTimeRangeRelaxed(tr, li) == IF li >= 1 THEN None ELSE tr

\* let time_range = time_range.clone(); in the closure of a branch task: the
\* time_range argument of its search_by_vector call in iteration li.
BranchTimeRange(tr, li) == tr

\* Mutant of BranchLookup: a miss is looked up again instead of ending the
\* task with an empty list.
BranchLookupRetry(j) ==
    /\ pc = "fanout"
    /\ tasks[j].pc = "lookup"
    /\ find_calls' = find_calls + 1
    /\ \/ Finish(j, FALSE, <<>>)
       \/ /\ tasks' = tasks
          /\ first_finished' = first_finished
       \/ /\ tasks' = [tasks EXCEPT ![j].pc = "search",
                                    ![j].memory = StoreMemory(stored_tags, tasks[j].seed)]
          /\ first_finished' = first_finished
    /\ UNCHANGED <<scheduler_vars, branch_vars, inputs, pc, visited, all_candidates, current_layer_results,
                   layer_index, reranked, final_results, emitted, found_layer,
                   found_by, search_calls, rerank_calls, rerank_reply,
                   time_range_args, layer1_reply, found_task, documents>>

\* storage.find_memory_by_id(&result_id).await? and the match on its answer.
BranchLookup(j) ==
    /\ pc = "fanout"
    /\ tasks[j].pc = "lookup"
    /\ find_calls' = find_calls + 1
    /\ \/ \* Err: the ? returns it from the task
          Finish(j, FALSE, <<>>)
       \/ \* Ok(None): the task returns Ok(Vec::new())
          Finish(j, TRUE, <<>>)
       \/ \* Ok(Some(m))
          /\ tasks' = [tasks EXCEPT ![j].pc = "search",
                                    ![j].memory = StoreMemory(stored_tags, tasks[j].seed)]
          /\ first_finished' = first_finished
    /\ UNCHANGED <<scheduler_vars, branch_vars, inputs, pc, visited, all_candidates, current_layer_results,
                   layer_index, reranked, final_results, emitted, found_layer,
                   found_by, search_calls, rerank_calls, rerank_reply,
                   time_range_args, layer1_reply, found_task, documents>>

\* Mutant of BranchSearch: the task itself records what it found in the
\* shared visited set and candidate list, as a task holding a lock would.
BranchSearchShared(j) ==
    /\ pc = "fanout"
    /\ tasks[j].pc = "search"
    /\ search_calls' = search_calls + 1
    /\ \/ /\ Finish(j, FALSE, <<>>)
          /\ UNCHANGED <<visited, all_candidates, found_layer, found_by, found_task>>
       \/ \E answer \in SearchAnswers(stored_tags, search_config.branch_limit * 2) :
              LET related == BranchRelated(layer_index, tasks[j].memory, answer)
                  fresh == SelectSeq(related, LAMBDA r : r.id \notin visited)
              IN  /\ Finish(j, TRUE, related)
                  /\ visited' = visited \cup {fresh[k].id : k \in DOMAIN fresh}
                  /\ all_candidates' = all_candidates \o fresh
                  /\ found_layer' = found_layer \o [k \in DOMAIN fresh |-> layer_index + 1]
                  /\ found_by' = found_by \o [k \in DOMAIN fresh |-> tasks[j].seed]
                  /\ found_task' = found_task \o [k \in DOMAIN fresh |-> j]
    /\ time_range_args' = time_range_args \cup {BranchTimeRange(time_range, layer_index)}
    /\ UNCHANGED <<scheduler_vars, branch_vars, inputs, pc, current_layer_results, layer_index, reranked,
                   final_results, emitted, find_calls, rerank_calls, rerank_reply,
                   layer1_reply, documents>>

\* storage.search_by_vector(memory.vector, branch_limit * 2, ..).await?, the tag
\* filter and the truncation.
BranchSearch(j) ==
    /\ pc = "fanout"
    /\ tasks[j].pc = "search"
    /\ search_calls' = search_calls + 1
    /\ \/ Finish(j, FALSE, <<>>)
       \/ \E answer \in SearchAnswers(stored_tags, search_config.branch_limit * 2) :
              Finish(j, TRUE, BranchRelated(layer_index, tasks[j].memory, answer))
    /\ time_range_args' = time_range_args \cup {BranchTimeRange(time_range, layer_index)}
    /\ UNCHANGED <<scheduler_vars, branch_vars, inputs, pc, visited, all_candidates, current_layer_results,
                   layer_index, reranked, final_results, emitted, found_layer,
                   found_by, find_calls, rerank_calls, rerank_reply,
                   layer1_reply, found_task, documents>>

\* ------------------------------------------------------------- aggregation

\* Mutant of JoinAll: the output of the task that finished first comes first,
\* as when the outputs are collected as they complete.
JoinAllFirstFinished(ts, first) ==
    IF first \in DOMAIN ts
    THEN <<ts[first]>>
         \o [j \in 1..(Len(ts) - 1) |-> IF j < first THEN ts[j] ELSE ts[j + 1]]
    ELSE ts

\* join_all(search_tasks).await: the outputs in the order of the tasks,
\* whichever finished first.
JoinAll(ts, first) == [j \in DOMAIN ts |-> ts[j]]

\* Mutant of MergeRelated: no visited check, every result is accepted.
RECURSIVE MergeRelatedNoDedup(_, _, _, _, _)
MergeRelatedNoDedup(st, related, k, seed, maxn) ==
    IF k > Len(related) THEN st
    ELSE LET rel == related[k]
             st2 == [visited |-> st.visited \cup {rel.id},
                     cands |-> Append(st.cands, rel),
                     next |-> Append(st.next, rel),
                     by |-> Append(st.by, seed)]
         IN  IF Len(st2.cands) >= maxn THEN st2
             ELSE MergeRelatedNoDedup(st2, related, k + 1, seed, maxn)

\* Mutant of MergeRelated: the inner loop does not stop at max_nodes.
RECURSIVE MergeRelatedNoBreak(_, _, _, _, _)
MergeRelatedNoBreak(st, related, k, seed, maxn) ==
    IF k > Len(related) THEN st
    ELSE LET rel == related[k]
         IN  IF rel.id \notin st.visited
             THEN MergeRelatedNoBreak([visited |-> st.visited \cup {rel.id},
                                       cands |-> Append(st.cands, rel),
                                       next |-> Append(st.next, rel),
                                       by |-> Append(st.by, seed)],
                                      related, k + 1, seed, maxn)
             ELSE MergeRelatedNoBreak(st, related, k + 1, seed, maxn)

\* The inner loop of the merge (search.rs:217-226) from position k of related;
\* st is (visited, all_candidates, next_layer_results) and the record of who
\* found each candidate.
RECURSIVE MergeRelated(_, _, _, _, _)
MergeRelated(st, related, k, seed, maxn) ==
    IF k > Len(related) THEN st
    ELSE LET rel == related[k]
         IN  IF rel.id \notin st.visited
             THEN LET st2 == [visited |-> st.visited \cup {rel.id},
                              cands |-> Append(st.cands, rel),
                              next |-> Append(st.next, rel),
                              by |-> Append(st.by, seed)]
                  IN  IF Len(st2.cands) >= maxn THEN st2
                      ELSE MergeRelated(st2, related, k + 1, seed, maxn)
             ELSE MergeRelated(st, related, k + 1, seed, maxn)

\* The state st2 of the merge after the branch at position j, with the
\* candidates added since st recorded as found by that branch.
FoundByTask(st, st2, j) ==
    [visited |-> st2.visited, cands |-> st2.cands, next |-> st2.next, by |-> st2.by,
     task |-> st.task \o [k \in 1..(Len(st2.next) - Len(st.next)) |-> j]]

\* Mutant of MergeAll: a failed branch ends the merge of the layer.
RECURSIVE MergeAllStopOnError(_, _, _, _)
MergeAllStopOnError(st, all_related, j, maxn) ==
    IF j > Len(all_related) THEN st
    ELSE LET r == all_related[j]
         IN  IF r.ok
             THEN LET st2 == FoundByTask(st, MergeRelated(st, r.related, 1, r.seed, maxn), j)
                  IN  IF Len(st2.cands) >= maxn THEN st2
                      ELSE MergeAllStopOnError(st2, all_related, j + 1, maxn)
             ELSE st

\* The outer loop of the merge (search.rs:214-237) from position j.
RECURSIVE MergeAll(_, _, _, _)
MergeAll(st, all_related, j, maxn) ==
    IF j > Len(all_related) THEN st
    ELSE LET r == all_related[j]
         IN  IF r.ok
             THEN LET st2 == FoundByTask(st, MergeRelated(st, r.related, 1, r.seed, maxn), j)
                  IN  IF Len(st2.cands) >= maxn THEN st2
                      ELSE MergeAll(st2, all_related, j + 1, maxn)
             ELSE MergeAll(st, all_related, j + 1, maxn)

\* Mutant of LoopRuns: the budget is not checked at the head of the loop.
LoopRunsIgnoreBudget(cands, cur, li) ==
    /\ li <= max_layers - 1
    /\ cur # <<>>

\* Mutant of LoopRuns: a layer without new nodes does not end the loop.
LoopRunsIgnoreEmpty(cands, cur, li) ==
    /\ li <= max_layers - 1
    /\ Len(cands) < max_nodes

\* The head of the layer loop for iteration li (search.rs:154-166): whether
\* the body runs.
LoopRuns(cands, cur, li) ==
    /\ li <= max_layers - 1
    /\ Len(cands) < max_nodes
    /\ cur # <<>>

\* Enter iteration li of the layer loop, or leave the loop for the rerank.
EnterLayer(cands, cur, li) ==
    IF LoopRuns(cands, cur, li)
    THEN /\ pc' = "fanout"
         /\ layer_index' = li
         /\ tasks' = SpawnTasks(cur)
    ELSE /\ pc' = "rerank"
         /\ layer_index' = layer_index
         /\ tasks' = <<>>

\* for result in &current_layer_results { if visited.insert(..) { push } }
RECURSIVE RecordLayer1(_, _, _)
RecordLayer1(st, results, k) ==
    IF k > Len(results) THEN st
    ELSE IF results[k].id \notin st.visited
         THEN RecordLayer1([visited |-> st.visited \cup {results[k].id},
                            cands |-> Append(st.cands, results[k])],
                           results, k + 1)
         ELSE RecordLayer1(st, results, k + 1)

\* Mutant of Layer1Empty: no early return, the search goes on with nothing.
Layer1EmptyFallsThrough ==
    /\ EnterLayer(<<>>, <<>>, 1)
    /\ UNCHANGED <<visited, all_candidates, current_layer_results, emitted,
                   found_layer, found_by>>

\* if current_layer_results.is_empty() { output.info(..); return Ok(()); }
Layer1Empty ==
    /\ pc' = "done"
    /\ emitted' = "no_results"
    /\ UNCHANGED <<visited, all_candidates, current_layer_results, layer_index,
                   tasks, found_layer, found_by>>

\* Mutant of Layer1Failed: the error is absorbed like a branch failure, the
\* layer has no results.
Layer1FailedAbsorbed ==
    /\ pc' = "done"
    /\ emitted' = "no_results"
    /\ UNCHANGED <<visited, all_candidates, current_layer_results, layer_index,
                   tasks, found_layer, found_by>>

\* The ? of storage.search_by_vector(..).await? at layer 1 returns the error
\* from multi_layer_search.
Layer1Failed ==
    /\ pc' = "error"
    /\ UNCHANGED <<visited, all_candidates, current_layer_results, layer_index,
                   tasks, emitted, found_layer, found_by>>

\* From the entry of multi_layer_search to the first fan-out.
Layer1 ==
    /\ pc = "start"
    /\ IF ~TimeRangeParses(after, before)
       THEN \* the ? of parse_datetime returns the error
            /\ pc' = "error"
            /\ UNCHANGED <<visited, all_candidates, current_layer_results,
                           layer_index, tasks, emitted, found_layer, found_by,
                           found_task, search_calls, time_range_args, layer1_reply>>
       ELSE /\ search_calls' = search_calls + 1
            /\ time_range_args' = time_range_args \cup {time_range}
            /\ \/ \* search_by_vector(..).await? fails
                  /\ Layer1Failed
                  /\ layer1_reply' = "failed"
                  /\ found_task' = found_task
               \/ \* no result above thresholds[0]
                  /\ Layer1Empty
                  /\ layer1_reply' = "answered"
                  /\ found_task' = found_task
               \/ \E answer \in SearchAnswers(stored_tags, search_config.branch_limit) :
                      /\ answer # <<>>
                      /\ LET st == RecordLayer1([visited |-> visited,
                                                 cands |-> all_candidates],
                                                answer, 1)
                         IN  /\ visited' = st.visited
                             /\ all_candidates' = st.cands
                             /\ current_layer_results' = answer
                             /\ found_layer' = [k \in DOMAIN st.cands |-> 1]
                             /\ found_by' = [k \in DOMAIN st.cands |-> 0]
                             /\ found_task' = [k \in DOMAIN st.cands |-> 0]
                             /\ EnterLayer(st.cands, answer, 1)
                      /\ emitted' = emitted
                      /\ layer1_reply' = "answered"
    /\ UNCHANGED <<scheduler_vars, branch_vars, inputs, first_finished, reranked, final_results, find_calls,
                   rerank_calls, rerank_reply, documents>>

\* After join_all: merge and dedup (search.rs:210-246), then the loop head.
Merge ==
    /\ pc = "fanout"
    /\ \A j \in DOMAIN tasks : tasks[j].pc = "done"
    /\ LET all_related == JoinAll(tasks, first_finished)
           st == MergeAll([visited |-> visited, cands |-> all_candidates,
                           next |-> <<>>, by |-> <<>>, task |-> <<>>],
                          all_related, 1, max_nodes)
       IN  /\ visited' = st.visited
           /\ all_candidates' = st.cands
           /\ current_layer_results' = st.next
           /\ found_layer' = found_layer \o [k \in DOMAIN st.next |-> layer_index + 1]
           /\ found_by' = found_by \o st.by
           /\ found_task' = found_task \o st.task
           /\ EnterLayer(st.cands, st.next, layer_index + 1)
    /\ first_finished' = 0
    /\ UNCHANGED <<scheduler_vars, branch_vars, inputs, reranked, final_results, emitted, search_calls,
                   find_calls, rerank_calls, rerank_reply, time_range_args,
                   layer1_reply, documents>>

\* -------------------------------------------------------------------- rerank

\* Mutant of BuildFinal: the similarity score is kept.
RECURSIVE BuildFinalKeepScore(_, _, _)
BuildFinalKeepScore(cands, items, k) ==
    IF k > Len(items) THEN <<>>
    ELSE LET item == items[k]
         IN  IF item.index + 1 \in DOMAIN cands
             THEN <<cands[item.index + 1]>> \o BuildFinalKeepScore(cands, items, k + 1)
             ELSE BuildFinalKeepScore(cands, items, k + 1)

\* Mutant of BuildFinal: only the first limit items of the reranker are read.
RECURSIVE BuildFinalFirstLimit(_, _, _)
BuildFinalFirstLimit(cands, items, k) ==
    IF k > Len(items) \/ k > limit THEN <<>>
    ELSE LET item == items[k]
         IN  IF item.index + 1 \in DOMAIN cands
             THEN <<[cands[item.index + 1] EXCEPT !.score = item.score]>>
                  \o BuildFinalFirstLimit(cands, items, k + 1)
             ELSE BuildFinalFirstLimit(cands, items, k + 1)

\* The loop over the reranked items (search.rs:267-281).
RECURSIVE BuildFinal(_, _, _)
BuildFinal(cands, items, k) ==
    IF k > Len(items) THEN <<>>
    ELSE LET item == items[k]
         IN  IF item.index + 1 \in DOMAIN cands
             THEN <<[cands[item.index + 1] EXCEPT !.score = item.score]>>
                  \o BuildFinal(cands, items, k + 1)
             ELSE BuildFinal(cands, items, k + 1)

\* Mutant of Documents: the documents are sent last candidate first.
DocumentsReversed(cands) == [k \in DOMAIN cands |-> cands[Len(cands) + 1 - k].content]

\* let documents: Vec<&str> = all_candidates.iter().map(|r| r.content.as_str()).collect();
Documents(cands) == [k \in DOMAIN cands |-> cands[k].content]

\* Mutant of RerankFailed: the candidates are shown in similarity order.
RerankFallback ==
    /\ pc' = "done"
    /\ reranked' = <<>>
    /\ final_results' = SubSeq(all_candidates, 1, Min(limit, Len(all_candidates)))
    /\ emitted' = "search_results"

\* The ? of RerankModel::new(..)? and of rerank(..).await? returns the error
\* from multi_layer_search.
RerankFailed ==
    /\ pc' = "error"
    /\ UNCHANGED <<reranked, final_results, emitted>>

\* Mutant of Rerank: an empty answer of the reranker is returned as an error.
RerankEmptyFails ==
    /\ pc = "rerank"
    /\ \/ \* RerankModel::new fails
          /\ RerankFailed
          /\ rerank_calls' = rerank_calls
          /\ rerank_reply' = rerank_reply
          /\ documents' = documents
       \/ \* the rerank call fails
          /\ RerankFailed
          /\ rerank_calls' = rerank_calls + 1
          /\ rerank_reply' = "failed"
          /\ documents' = Documents(all_candidates)
       \/ \E answer \in RerankAnswers :
              /\ rerank_calls' = rerank_calls + 1
              /\ rerank_reply' = "answered"
              /\ documents' = Documents(all_candidates)
              /\ reranked' = answer
              /\ IF answer = <<>>
                 THEN /\ pc' = "error"
                      /\ UNCHANGED <<final_results, emitted>>
                 ELSE /\ final_results' = BuildFinal(all_candidates, answer, 1)
                      /\ emitted' = "search_results"
                      /\ pc' = "done"
    /\ UNCHANGED <<scheduler_vars, branch_vars, inputs, visited, all_candidates, current_layer_results,
                   layer_index, tasks, first_finished, found_layer, found_by,
                   search_calls, find_calls, time_range_args, layer1_reply,
                   found_task>>

\* RerankModel::new(..)?, rerank(..).await?, and the output.
Rerank ==
    /\ pc = "rerank"
    /\ \/ \* RerankModel::new fails
          /\ RerankFailed
          /\ rerank_calls' = rerank_calls
          /\ rerank_reply' = rerank_reply
          /\ documents' = documents
       \/ \* the rerank call fails
          /\ RerankFailed
          /\ rerank_calls' = rerank_calls + 1
          /\ rerank_reply' = "failed"
          /\ documents' = Documents(all_candidates)
       \/ \E answer \in RerankAnswers :
              /\ rerank_calls' = rerank_calls + 1
              /\ rerank_reply' = "answered"
              /\ documents' = Documents(all_candidates)
              /\ reranked' = answer
              /\ final_results' = BuildFinal(all_candidates, answer, 1)
              /\ emitted' = "search_results"
              /\ pc' = "done"
    /\ UNCHANGED <<scheduler_vars, branch_vars, inputs, visited, all_candidates, current_layer_results,
                   layer_index, tasks, first_finished, found_layer, found_by,
                   search_calls, find_calls, time_range_args, layer1_reply,
                   found_task>>

Next ==
    \/ Layer1
    \/ \E j \in DOMAIN tasks : BranchLookup(j)
    \/ \E j \in DOMAIN tasks : BranchSearch(j)
    \/ Merge
    \/ Rerank

Spec == Init /\ [][Next]_vars

\* ------------------------------------------------ searches with time bounds
\* The same search over every --after and --before, with the default
\* threshold on the store of mixed tags.

TimeInit ==
    /\ stored_tags = [id \in Ids |-> MixedTags(id)]
    /\ limit \in LimitInputs
    /\ threshold = F32_0_60
    /\ after \in AfterInputs
    /\ before \in BeforeInputs
    /\ SearchEntry
    /\ SchedulerIdle
    /\ BranchIdle

TimeSpec == TimeInit /\ [][Next]_vars

\* ------------------------------------------- generate_thresholds on its own
\* TreeSearchConfig and generate_thresholds are public: a caller builds any
\* configuration and calls the method.  first_threshold is any f32 (the
\* --threshold option is parsed as f32 and not validated), max_depth any usize.

\* Multiples of 2^-9.
GridStep == Pow2[20]

GridThresholds == {k * GridStep : k \in (0 - GridBelowZero)..GridAboveZero}

\* The f32 of 0.30, 0.35, 0.45, 0.55, 0.60, 0.65, 0.70, 0.75, 0.80, 0.85, 0.88,
\* 0.90, 0.91, 0.92, 0.93, 0.94, 0.95, 0.96, 0.99.
DecimalThresholds ==
    {161061280, 187904816, 241591904, 295279008, 322122560, 348966080,
     375809632, 402653184, 429496736, 456340288, 472446400, 483183808,
     488552544, 493921248, 499289952, 504658656, 510027360, 515396064,
     531502208}

\* The f32 next to each value of S, below and above (values in [0.5, 1) are
\* 2^-24 apart).
Neighbours(S) == UNION {{v - Pow2[5], v, v + Pow2[5]} : v \in S}

SchedulerThresholdInputs ==
    GridThresholds
        \cup Neighbours({x \in DecimalThresholds : x >= Pow2[28]})
        \cup DecimalThresholds
        \cup {F32_NEG_INFINITY, F32_INFINITY}

SchedulerDepthInputs == 0..MaxDepthInput

\* TreeSearchConfig { first_threshold, max_depth, ..Default::default() }
TreeSearchConfig(first_threshold, max_depth) ==
    [SearchConfigNew(first_threshold, DefaultMaxNodes) EXCEPT !.max_depth = max_depth]

SchedulerInit ==
    /\ stored_tags = [id \in Ids |-> {"a"}]
    /\ limit = 1
    /\ threshold = F32_0_60
    /\ after = None
    /\ before = None
    /\ SearchEntry
    /\ scheduler_config \in {TreeSearchConfig(t0, maxd) :
                                t0 \in SchedulerThresholdInputs,
                                maxd \in SchedulerDepthInputs}
    /\ scheduler_pc = "called"
    /\ scheduler_thresholds = <<>>
    /\ BranchIdle

\* config.generate_thresholds()
GenerateThresholds ==
    /\ scheduler_pc = "called"
    /\ scheduler_thresholds' = generate_thresholds(scheduler_config.first_threshold,
                                                   scheduler_config.max_depth)
    /\ scheduler_pc' = "returned"
    /\ UNCHANGED <<scheduler_config, search_vars, branch_vars>>

SchedulerNext == GenerateThresholds

SchedulerSpec == SchedulerInit /\ [][SchedulerNext]_vars

\* ------------------------------------------------------ one branch on its own
\* One branch of a layer from the answer of its search_by_vector call to the
\* end of its turn in the merge: the task's filter and cut (search.rs:196-204)
\* and the inner loop of the merge (search.rs:217-226), applied to every
\* answer of the store and every candidate list the merge can stand at.

\* The sequences without repetition over S of length 1..n.
DistinctSeqs(S, n) ==
    {q \in SeqsUpTo(S, n) : q # <<>> /\ \A k, l \in DOMAIN q : k # l => q[k] # q[l]}

\* The branches the merge can come to: the seed is an accepted candidate, the
\* candidates are distinct and fewer than max_nodes (search.rs:157, 234), the
\* answer is any Ok answer to the call of search.rs:187-194.
BranchCalls(table, maxn) ==
    {[seed |-> c.ids[c.p],
      cands |-> [k \in DOMAIN c.ids |-> StoreResult(table, c.ids[k])],
      answer |-> answer] :
        c \in {d \in [ids : DistinctSeqs(Ids, maxn - 1), p : 1..(maxn - 1)] :
                  d.p <= Len(d.ids)},
        answer \in SearchAnswers(table, search_config.branch_limit * 2)}

BranchInit ==
    /\ stored_tags \in TagTables
    /\ limit \in LimitInputs
    /\ threshold = F32_0_60
    /\ after = None
    /\ before = None
    /\ SearchEntry
    /\ SchedulerIdle
    /\ branch_pc = "called"
    /\ branch_call \in BranchCalls(stored_tags, max_nodes)
    /\ branch_related = <<>>
    /\ branch_merged = [visited |-> {}, cands |-> <<>>, next |-> <<>>, by |-> <<>>]

\* The task returns Ok(related) (search.rs:196-204); layer_index is at least
\* 1 in every task.
BranchTaskReturns ==
    /\ branch_pc = "called"
    /\ branch_related' = BranchRelated(1, StoreMemory(stored_tags, branch_call.seed),
                                       branch_call.answer)
    /\ branch_pc' = "returned"
    /\ UNCHANGED <<branch_call, branch_merged, search_vars, scheduler_vars>>

\* The turn of the branch in the merge (search.rs:216-227).
BranchMerged ==
    /\ branch_pc = "returned"
    /\ branch_merged' =
           MergeRelated([visited |-> {branch_call.cands[k].id : k \in DOMAIN branch_call.cands},
                         cands |-> branch_call.cands, next |-> <<>>, by |-> <<>>],
                        branch_related, 1, branch_call.seed, max_nodes)
    /\ branch_pc' = "merged"
    /\ UNCHANGED <<branch_call, branch_related, search_vars, scheduler_vars>>

BranchNext == BranchTaskReturns \/ BranchMerged

BranchSpec == BranchInit /\ [][BranchNext]_vars

\* --------------------------------------------------------------- MemoryTree
\* MemoryNode = {memory: Option<QueryResult>, children: Vec<MemoryNode>, layer}
\* and MemoryTree = {root, total_nodes}.  The tree is the second view of the
\* expansion trace: each accepted node is a child of the node of the branch
\* memory that discovered it, and the root (memory None) holds the layer-1
\* nodes.

\* s[1] \o s[2] \o ... for a sequence of sequences.
RECURSIVE ConcatAll(_)
ConcatAll(s) == IF s = <<>> THEN <<>> ELSE Head(s) \o ConcatAll(Tail(s))

\* The positions of cands, in order, of the candidates that the branch of
\* parent discovered at layer (parent 0: the query itself, at layer 1).
PositionsFoundBy(cands, layers, by, parent, layer) ==
    SelectSeq([k \in DOMAIN cands |-> k], LAMBDA c : by[c] = parent /\ layers[c] = layer)

\* The node of the candidate at position k with the nodes discovered from it
\* below.
RECURSIVE BuildNode(_, _, _, _)
BuildNode(cands, layers, by, k) ==
    LET kids == PositionsFoundBy(cands, layers, by, cands[k].id, layers[k] + 1)
    IN  [memory |-> Some(cands[k]),
         layer |-> layers[k],
         children |-> [i \in DOMAIN kids |-> BuildNode(cands, layers, by, kids[i])]]

\* s[1] + s[2] + ... for a sequence of numbers.
RECURSIVE SumAll(_)
SumAll(s) == IF s = <<>> THEN 0 ELSE Head(s) + SumAll(Tail(s))

\* The number of nodes below node.
RECURSIVE CountBelow(_)
CountBelow(node) ==
    Len(node.children)
        + SumAll([i \in DOMAIN node.children |-> CountBelow(node.children[i])])

\* The tree of an expansion trace.
BuildTree(cands, layers, by) ==
    LET tops == PositionsFoundBy(cands, layers, by, 0, 1)
        root == [memory |-> None,
                 layer |-> 0,
                 children |-> [i \in DOMAIN tops |-> BuildNode(cands, layers, by, tops[i])]]
    IN  [root |-> root, total_nodes |-> CountBelow(root)]

\* Mutant of display_result_item_tree: the children are not displayed.
display_result_item_treeNoChildren(node) ==
    IF node.memory.some THEN <<Unwrap(node.memory).id>> ELSE <<>>

\* Output::display_result_item_tree: the ids in the order they are displayed,
\* the node first and then its children in order; a node without memory
\* displays nothing.
RECURSIVE display_result_item_tree(_)
display_result_item_tree(node) ==
    IF node.memory.some
    THEN <<Unwrap(node.memory).id>>
         \o ConcatAll([i \in DOMAIN node.children |->
                          display_result_item_tree(node.children[i])])
    ELSE <<>>

\* Output::search_results_tree: the children of the root, in order.
search_results_tree(tree) ==
    ConcatAll([i \in DOMAIN tree.root.children |->
                  display_result_item_tree(tree.root.children[i])])

\* ===================================================================== claims

\* Every task of the running layer has returned.
AllDone == pc = "fanout" /\ \A j \in DOMAIN tasks : tasks[j].pc = "done"

\* Some task of the running layer has not returned yet.
InFlight == pc = "fanout" /\ \E j \in DOMAIN tasks : tasks[j].pc # "done"

RECURSIVE Flatten(_)
Flatten(lists) == IF lists = <<>> THEN <<>> ELSE Head(lists) \o Flatten(Tail(lists))

\* The elements of s at the positions P, in the order of s.
SubseqAt(s, P) ==
    [i \in 1..Cardinality(P) |->
        s[CHOOSE k \in P : Cardinality({m \in P : m < k}) = i - 1]]

\* Of the results s, the first occurrence of every id not in vis, in the order
\* of s, cut to room entries.
FirstWins(s, vis, room) ==
    LET fresh == {k \in DOMAIN s :
                     /\ s[k].id \notin vis
                     /\ \A m \in 1..(k - 1) : s[m].id # s[k].id}
        all == SubseqAt(s, fresh)
    IN  SubSeq(all, 1, Min(room, Len(all)))

\* What each task of the layer hands to the merge, a failed one counted as an
\* empty list, by position of the parent.
FailedAsEmpty == [j \in DOMAIN tasks |-> IF tasks[j].ok THEN tasks[j].related ELSE <<>>]

\* The seed of the first parent (by position) whose list holds id.
FirstParent(id) ==
    tasks[CHOOSE j \in DOMAIN tasks :
              /\ \E m \in DOMAIN FailedAsEmpty[j] : FailedAsEmpty[j][m].id = id
              /\ \A i \in 1..(j - 1) :
                     \A m \in DOMAIN FailedAsEmpty[i] : FailedAsEmpty[i][m].id # id].seed

\* The candidates the merge of the layer must add.
ExpectedNew == FirstWins(Flatten(FailedAsEmpty), visited, max_nodes - Len(all_candidates))

\* The ids of the candidates accepted in layer L (1-based), in order.
AcceptedIn(L) ==
    LET P == {k \in DOMAIN all_candidates : found_layer[k] = L}
    IN  [i \in 1..Cardinality(P) |-> SubseqAt(all_candidates, P)[i].id]

LayerSeeds == [j \in DOMAIN tasks |-> tasks[j].seed]

\* C1 -- global dedup: in every state no memory id occurs twice in the
\* candidate list, and the visited set is exactly the ids of the candidates,
\* whatever the store answers (an id repeated in one answer, across branches
\* or across layers).
C1_GlobalDedup ==
    /\ \A i, k \in DOMAIN all_candidates :
           i # k => all_candidates[i].id # all_candidates[k].id
    /\ visited = {all_candidates[k].id : k \in DOMAIN all_candidates}

\* C1 witness: after a layer was merged, every task of a later layer has
\* returned and one of them returned an id that is already visited.
C1_Witness ==
    /\ AllDone
    /\ \E k \in DOMAIN found_layer : found_layer[k] >= 2
    /\ \E j \in DOMAIN tasks : \E m \in DOMAIN tasks[j].related :
           tasks[j].related[m].id \in visited

\* C2 -- budget: the number of accepted candidates never exceeds max_nodes,
\* directly after layer 1 and after every merge.
C2_Budget ==
    /\ Len(all_candidates) <= max_nodes
    /\ Cardinality(visited) <= max_nodes

\* C2 witness: the budget is smaller than the store and was reached by a
\* merge of a deeper layer.
C2_Witness ==
    /\ max_nodes < NumIds
    /\ Len(all_candidates) = max_nodes
    /\ \E k \in DOMAIN found_layer : found_layer[k] >= 2

\* C3 -- a branch whose lookup or search fails, or whose lookup finds nothing,
\* hands no node to the layer; the merge of a layer with a failed branch does
\* not end the search in an error and adds exactly what it would add had the
\* failed branch returned an empty list.
C3_BranchFailureAbsorbed ==
    [][(AllDone /\ \E j \in DOMAIN tasks : ~tasks[j].ok) =>
          /\ \A j \in DOMAIN tasks :
                 (~tasks[j].ok \/ tasks[j].memory = NoMemory) => tasks[j].related = <<>>
          /\ pc' \in {"fanout", "rerank"}
          /\ all_candidates' = all_candidates \o ExpectedNew
          /\ current_layer_results' = ExpectedNew]_vars

\* C3 witness: a branch has failed and a later sibling has returned a node
\* that is not visited yet.
C3_Witness ==
    /\ AllDone
    /\ \E i, j \in DOMAIN tasks :
           /\ i < j
           /\ ~tasks[i].ok
           /\ tasks[j].ok
           /\ \E m \in DOMAIN tasks[j].related : tasks[j].related[m].id \notin visited

\* C4 -- a reranker failure is fatal: a search that ended in an error has shown
\* nothing, and results are shown only by a search that ended normally after
\* one rerank call, every shown result carrying a reranker score and coming
\* from an item of the reranker's answer (no fallback to the similarity order).
C4_RerankFailureFatal ==
    /\ pc = "error" => (emitted = "none" /\ final_results = <<>>)
    /\ emitted = "search_results" =>
           /\ pc = "done"
           /\ rerank_calls = 1
           /\ Len(final_results) <= Len(reranked)
           /\ \A k \in DOMAIN final_results : final_results[k].score \in RerankScores

\* C4 witness: the rerank call failed after an expansion that found candidates.
C4_Witness ==
    /\ pc = "error"
    /\ rerank_calls = 1
    /\ Len(all_candidates) >= 2

\* The items of the reranker's answer whose index is a position of cands.
ValidItems(items, cands) == SelectSeq(items, LAMBDA it : it.index < Len(cands))

\* C5 -- the output is the reranker's sequence: the j-th shown result is the
\* candidate at the index of the j-th (valid) item, with the item's score as
\* its score, and a candidate whose index is not in the answer is not shown.
C5_OutputIsRerankerSequence ==
    emitted = "search_results" =>
        LET valid == ValidItems(reranked, all_candidates)
        IN  /\ Len(final_results) = Len(valid)
            /\ \A j \in DOMAIN valid :
                   /\ final_results[j].id = all_candidates[valid[j].index + 1].id
                   /\ final_results[j].tags = all_candidates[valid[j].index + 1].tags
                   /\ final_results[j].score = valid[j].score
            /\ \A k \in DOMAIN all_candidates :
                   (\A j \in DOMAIN reranked : reranked[j].index # k - 1) =>
                       \A m \in DOMAIN final_results :
                           final_results[m].id # all_candidates[k].id

\* C5 witness: of three candidates the reranker returned the third and then
\* the first, with different scores.
C5_Witness ==
    /\ emitted = "search_results"
    /\ Len(all_candidates) = 3
    /\ Len(reranked) = 2
    /\ reranked[1].index = 2
    /\ reranked[2].index = 0
    /\ reranked[1].score # reranked[2].score

\* C6 -- when layer 1 returns nothing the search ends normally with the
\* "no results" note, and no lookup, no further search and no rerank call was
\* issued.
C6_EmptyLayer1IsNormalEnd ==
    (pc \notin {"start", "error"} /\ all_candidates = <<>>) =>
        /\ pc = "done"
        /\ emitted = "no_results"
        /\ tasks = <<>>
        /\ final_results = <<>>
        /\ search_calls = 1
        /\ find_calls = 0
        /\ rerank_calls = 0

\* C6 witness: the search has ended with the "no results" note.
C6_Witness == pc = "done" /\ emitted = "no_results"

\* C7 -- with require_tag_overlap, every candidate accepted at layer >= 2
\* shares a tag with the stored memory of the branch that found it.
C7_TagOverlapWithParent ==
    search_config.require_tag_overlap =>
        \A k \in DOMAIN all_candidates :
            found_layer[k] >= 2 =>
                all_candidates[k].tags \cap stored_tags[found_by[k]] # {}

\* C7 witness: in the store with a tagless memory, that memory is a candidate
\* and a node was accepted at layer >= 2.
C7_Witness ==
    /\ \E id \in Ids : stored_tags[id] = {}
    /\ \E k \in DOMAIN all_candidates : stored_tags[all_candidates[k].id] = {}
    /\ \E k \in DOMAIN found_layer : found_layer[k] >= 2

\* C8 -- layer ordering: while the tasks of a layer run nothing of that layer
\* is merged yet, and the seeds of the layer are exactly the nodes newly
\* accepted in the layer before, each seeded once.
C8_LayerOrdering ==
    pc = "fanout" =>
        /\ \A k \in DOMAIN found_layer : found_layer[k] <= layer_index
        /\ LayerSeeds = AcceptedIn(layer_index)

\* The part of C8 that holds: from layer 3 on the seeds are exactly the nodes
\* newly accepted in the layer before, and at layer 2 every accepted layer-1
\* node is a seed and every seed an accepted layer-1 node.
LayerOrderingUpToRepeats ==
    pc = "fanout" =>
        /\ \A k \in DOMAIN found_layer : found_layer[k] <= layer_index
        /\ layer_index >= 2 => LayerSeeds = AcceptedIn(layer_index)
        /\ {LayerSeeds[j] : j \in DOMAIN LayerSeeds}
               = {AcceptedIn(layer_index)[i] : i \in DOMAIN AcceptedIn(layer_index)}

\* C9 -- the visited set and the candidate list are never changed while a
\* task of the layer is in flight: a step that changes either one starts from
\* the entry of the search or from a layer whose tasks have all returned.
C9_NoUpdateWhileInFlight ==
    [][(visited' # visited \/ all_candidates' # all_candidates) =>
          (pc = "start" \/ AllDone)]_vars

\* C9 witness: one task has returned a node that is not visited while a
\* sibling is still in flight.
C9_Witness ==
    /\ InFlight
    /\ \E j \in DOMAIN tasks :
           /\ tasks[j].pc = "done"
           /\ \E m \in DOMAIN tasks[j].related : tasks[j].related[m].id \notin visited

\* The part of C10 that holds: the merge of a layer adds the first occurrences
\* of the unvisited ids of the branch lists taken in the order of the parents,
\* each recorded with its first parent, whichever task finished first.
FirstAcceptanceWins ==
    [][AllDone =>
          /\ all_candidates' = all_candidates \o ExpectedNew
          /\ found_by' = found_by \o [k \in DOMAIN ExpectedNew |-> FirstParent(ExpectedNew[k].id)]]_vars

\* C10 -- deterministic first acceptance: the merge of a layer adds the first
\* occurrences of the unvisited ids in the order of the parents, whichever
\* task finished first, and no id is expanded twice: the seeds of a layer are
\* pairwise different.
C10_DeterministicFirstAcceptance ==
    [][/\ AllDone =>
              /\ all_candidates' = all_candidates \o ExpectedNew
              /\ found_by' = found_by \o [k \in DOMAIN ExpectedNew |->
                                             FirstParent(ExpectedNew[k].id)]
       /\ pc' = "fanout" =>
              \A i, j \in DOMAIN tasks' : i # j => tasks'[i].seed # tasks'[j].seed]_vars

\* The expansion is over: the search is at the rerank step or has returned.
ExpansionOver == pc \in {"rerank", "done", "error"}

\* C11 -- stop conditions: when, after layer 1 is recorded or a layer is
\* merged, the number of candidates has reached max_nodes, or the layer was
\* the last one with a threshold (max_layers = min(len(thresholds),
\* max_depth)), or the layer has added no node, the search goes to the rerank
\* step with no task spawned; and once the expansion is over no
\* find_memory_by_id or search_by_vector call is issued.
C11_StopConditions ==
    [][/\ (pc = "start" /\ all_candidates' # <<>>) =>
              ((Len(all_candidates') >= max_nodes \/ max_layers <= 1) =>
                   (pc' = "rerank" /\ tasks' = <<>>))
       /\ AllDone =>
              ((\/ Len(all_candidates') >= max_nodes
                \/ layer_index + 1 >= max_layers
                \/ Len(all_candidates') = Len(all_candidates)) =>
                   (pc' = "rerank" /\ tasks' = <<>>))
       /\ ExpansionOver =>
              /\ ExpansionOver'
              /\ search_calls' = search_calls
              /\ find_calls' = find_calls
              /\ tasks' = tasks]_vars

\* C11 witness: a deeper layer added no node and the search went to the
\* rerank step with budget and thresholds left.
C11_Witness ==
    /\ pc = "rerank"
    /\ layer_index >= 1
    /\ current_layer_results = <<>>
    /\ Len(all_candidates) < max_nodes
    /\ layer_index + 1 < max_layers

\* The other two stops of C11 happen as well: by the budget in a deeper
\* layer with thresholds left and new nodes found, and by the last threshold
\* with budget left and new nodes found.  (Reachability lemmas: each negation
\* is violated.)
StoppedByBudget ==
    /\ pc = "rerank"
    /\ layer_index >= 1
    /\ current_layer_results # <<>>
    /\ Len(all_candidates) >= max_nodes
    /\ layer_index + 1 < max_layers

StoppedByThresholds ==
    /\ pc = "rerank"
    /\ layer_index >= 1
    /\ current_layer_results # <<>>
    /\ Len(all_candidates) < max_nodes
    /\ layer_index + 1 >= max_layers

\* The most collaborator calls an expansion issues: the layer-1 search, and a
\* lookup and a search for every seed; the seeds are the layer-1 answer (at
\* most branch_limit results) and the nodes accepted later (fewer than
\* max_nodes).
CallBound == 1 + 2 * (search_config.branch_limit + max_nodes)

\* The guard of an action of the expansion holds: the layer-1 search is to be
\* issued, or a task of the layer waits for the answer of its lookup or of its
\* search, or every task has returned and the merge runs.
StepPossible ==
    \/ pc = "start"
    \/ /\ pc = "fanout"
       /\ \/ \E j \in DOMAIN tasks : tasks[j].pc \in {"lookup", "search"}
          \/ \A j \in DOMAIN tasks : tasks[j].pc = "done"

\* C12 -- termination: the expansion ends (the search reaches the rerank step,
\* or returns from layer 1) after finitely many collaborator calls.  Stated by
\* a measure: the calls of find_memory_by_id and search_by_vector never
\* exceed CallBound and the layer index never exceeds max_layers; every step
\* of the expansion issues a call, or starts the next layer, or ends the
\* expansion; and as long as the expansion is not over a step is possible
\* (every call is answered, every task is polled).
C12_Termination ==
    /\ [](search_calls + find_calls <= CallBound /\ layer_index < max_layers)
    /\ [](ExpansionOver \/ StepPossible)
    /\ [][~ExpansionOver =>
             \/ search_calls' + find_calls' > search_calls + find_calls
             \/ layer_index' > layer_index
             \/ ExpansionOver']_vars

\* C12 witness: an expansion of three layers or more has reached the rerank
\* step.
C12_Witness ==
    /\ pc = "rerank"
    /\ layer_index >= 2
    /\ find_calls >= 2
    /\ search_calls >= 3

\* ------------------------------------------------- the threshold scheduler

\* generate_thresholds has returned its sequence.
Returned == scheduler_pc = "returned"

\* C13, as stated: for all (t0, maxd) the sequence returned by
\* generate_thresholds has at most maxd elements.
C13_LengthAtMostMaxDepth ==
    Returned => Len(scheduler_thresholds) <= scheduler_config.max_depth

\* C13, amended: for all t0 and all maxd >= 1 the sequence returned by
\* generate_thresholds has at most maxd elements; for maxd = 0 it is the
\* one-element sequence [t0].
C13_LengthAtMostPositiveMaxDepth ==
    Returned =>
        IF scheduler_config.max_depth >= 1
        THEN Len(scheduler_thresholds) <= scheduler_config.max_depth
        ELSE scheduler_thresholds = <<scheduler_config.first_threshold>>

\* The length test of the loop is what ended the sequence: max_depth
\* elements, the last one still below 0.95.
C13_Witness ==
    /\ Returned
    /\ scheduler_config.max_depth >= 2
    /\ Len(scheduler_thresholds) = scheduler_config.max_depth
    /\ scheduler_thresholds[Len(scheduler_thresholds)] < F32_0_95

\* thresholds[i] > thresholds[i-1] for every i >= 1 (positions from 0).
StrictlyIncreasing(ts) ==
    \A i \in 2..Len(ts) : ts[i] > ts[i - 1]

\* C14, as stated: for all (t0, maxd) the sequence returned by
\* generate_thresholds is strictly increasing.
C14_StrictlyIncreasing ==
    Returned => StrictlyIncreasing(scheduler_thresholds)

\* C14, amended: for every t0 >= -1.0 and every maxd the sequence returned by
\* generate_thresholds is strictly increasing.
C14_StrictlyIncreasingFromMinusOne ==
    (Returned /\ scheduler_config.first_threshold >= 0 - Pow2[29])
        => StrictlyIncreasing(scheduler_thresholds)

\* A sequence of five thresholds or more from a finite first_threshold.
C14_Witness ==
    /\ Returned
    /\ F32IsFinite(scheduler_config.first_threshold)
    /\ scheduler_config.first_threshold >= 0 - Pow2[29]
    /\ Len(scheduler_thresholds) >= 5

\* C15, as stated: for all (t0, maxd) the last, hence every, value of the
\* sequence returned by generate_thresholds is <= 0.95.
C15_AtMostCap ==
    Returned =>
        \A i \in 1..Len(scheduler_thresholds) : scheduler_thresholds[i] <= F32_0_95

\* C15, amended: for every t0 <= 0.95 and every maxd the last, hence every,
\* value of the sequence returned by generate_thresholds is <= 0.95.
C15_AtMostCapFromBelow ==
    (Returned /\ scheduler_config.first_threshold <= F32_0_95) =>
        \A i \in 1..Len(scheduler_thresholds) : scheduler_thresholds[i] <= F32_0_95

\* The test against 0.95 is what ended the sequence: fewer than max_depth
\* elements, the last one below 0.95.
C15_Witness ==
    /\ Returned
    /\ scheduler_config.first_threshold < F32_0_95
    /\ Len(scheduler_thresholds) >= 2
    /\ Len(scheduler_thresholds) < scheduler_config.max_depth
    /\ scheduler_thresholds[Len(scheduler_thresholds)] < F32_0_95

\* The increment the bands give to a predecessor c: 0.10 if c < 0.65, 0.07 if
\* 0.65 <= c < 0.75, 0.05 if 0.75 <= c < 0.85, 0.03 otherwise.
Band(c) ==
    CASE c < F32_0_65 -> F32_0_10
      [] F32_0_65 <= c /\ c < F32_0_75 -> F32_0_07
      [] F32_0_75 <= c /\ c < F32_0_85 -> F32_0_05
      [] OTHER -> F32_0_03

\* The f32 of 0.60, 0.70, 0.77, 0.82, 0.87.
DefaultExample == <<F32_0_60, 375809632, 413390592, 440234144, 467077696>>

Distance(a, b) == IF a >= b THEN a - b ELSE b - a

\* C16: thresholds[0] is first_threshold, and every later element that is not
\* the 0.95 cap is its predecessor plus the increment of the predecessor's
\* band (an f32 sum); the default 0.60 with max_depth 5 yields five values,
\* 0.60, 0.70, 0.77, 0.82, 0.87 up to the rounding of the f32 sums.
C16_BandRecurrence ==
    Returned =>
        /\ scheduler_thresholds[1] = scheduler_config.first_threshold
        /\ \A i \in 2..Len(scheduler_thresholds) :
              \/ scheduler_thresholds[i] = F32_0_95
              \/ scheduler_thresholds[i] =
                    F32Add(scheduler_thresholds[i - 1], Band(scheduler_thresholds[i - 1]))
        /\ (scheduler_config.first_threshold = F32_0_60
                /\ scheduler_config.max_depth = DefaultMaxDepth) =>
              /\ Len(scheduler_thresholds) = Len(DefaultExample)
              /\ \A i \in 1..Len(DefaultExample) :
                    Distance(scheduler_thresholds[i], DefaultExample[i]) < Pow2[6]

\* The default configuration has returned its five thresholds, one from
\* each band.
C16_Witness ==
    /\ Returned
    /\ scheduler_config.first_threshold = F32_0_60
    /\ scheduler_config.max_depth = DefaultMaxDepth
    /\ Len(scheduler_thresholds) = 5
    /\ scheduler_thresholds[5] > F32_0_85

\* current + increment and 0.95 - current, as the loop computes them.
WithIncrement(current) == F32Add(current, Band(current))
RemainingGap(current) == F32Sub(F32_0_95, current)

\* C17: wherever an element follows thresholds[i], generation had not stopped
\* there (the length was below max_depth and the value below 0.95), and when
\* current + increment exceeded 0.95 the element that follows is 0.95, the
\* gap was >= 0.03 and nothing follows it; where the sequence ends, the length
\* has reached max_depth, or the last value is >= 0.95, or current + increment
\* exceeded 0.95 with a gap below 0.03 (nothing was appended).
C17_CapRule ==
    Returned =>
        LET n == Len(scheduler_thresholds)
            last == scheduler_thresholds[n]
        IN  /\ \A i \in 1..(n - 1) :
                  /\ i < scheduler_config.max_depth
                  /\ scheduler_thresholds[i] < F32_0_95
                  /\ WithIncrement(scheduler_thresholds[i]) > F32_0_95 =>
                        /\ scheduler_thresholds[i + 1] = F32_0_95
                        /\ RemainingGap(scheduler_thresholds[i]) >= F32_0_03
                        /\ i + 1 = n
            /\ \/ n >= scheduler_config.max_depth
               \/ last >= F32_0_95
               \/ /\ WithIncrement(last) > F32_0_95
                  /\ RemainingGap(last) < F32_0_03

\* current + increment exceeded 0.95 with a gap below 0.03: the sequence
\* ends below 0.95 and short of max_depth, 0.95 was not appended.
C17_Witness ==
    /\ Returned
    /\ Len(scheduler_thresholds) >= 2
    /\ Len(scheduler_thresholds) < scheduler_config.max_depth
    /\ scheduler_thresholds[Len(scheduler_thresholds)] < F32_0_95
    /\ WithIncrement(scheduler_thresholds[Len(scheduler_thresholds)]) > F32_0_95

\* Lemma: in f32 the appending side of the cap rule never happens.  Whenever
\* current + increment exceeds 0.95, current is above 0.92 and the gap is
\* below 0.03; a final 0.95 is the sum 0.92 + 0.03 itself.
CapNeverAppended ==
    Returned =>
        \A i \in 1..(Len(scheduler_thresholds) - 1) :
            WithIncrement(scheduler_thresholds[i]) <= F32_0_95

\* A sequence ending in 0.95, reached by the sum.
EndsAtCap ==
    /\ Returned
    /\ Len(scheduler_thresholds) >= 2
    /\ scheduler_thresholds[Len(scheduler_thresholds)] = F32_0_95

\* C18: for every first_threshold >= 0.93 and every max_depth the sequence
\* has at most 2 thresholds, the first being first_threshold.
C18_NearLimit ==
    (Returned /\ scheduler_config.first_threshold >= F32_0_93) =>
        /\ Len(scheduler_thresholds) <= 2
        /\ Len(scheduler_thresholds) >= 1
        /\ scheduler_thresholds[1] = scheduler_config.first_threshold

\* test_near_limit_threshold with room for more layers: first_threshold
\* 0.93, max_depth 3 or more.
C18_Witness ==
    /\ Returned
    /\ scheduler_config.first_threshold = F32_0_93
    /\ scheduler_config.max_depth >= 3
    /\ Len(scheduler_thresholds) <= 2

\* thresholds[i] - thresholds[i-1] minus thresholds[i-1] - thresholds[i-2]
\* (exact differences), for the element at position i >= 3 of ts.
IncrementGrowth(ts, i) == (ts[i] - ts[i - 1]) - (ts[i - 1] - ts[i - 2])

\* C19, as stated: along the sequence the successive increments never grow.
C19_IncrementsNeverGrow ==
    Returned =>
        \A i \in 3..Len(scheduler_thresholds) :
            IncrementGrowth(scheduler_thresholds, i) <= 0

\* C19, amended: for every first_threshold >= -1.0 the successive increments
\* never grow by 0.001 or more (the tolerance of test_high_start_threshold).
C19_IncrementsNeverGrowBeyondTolerance ==
    (Returned /\ scheduler_config.first_threshold >= 0 - Pow2[29]) =>
        \A i \in 3..Len(scheduler_thresholds) :
            IncrementGrowth(scheduler_thresholds, i) <= F32_0_001

\* Two increments of the same band whose f32 sums differ: the later one is
\* the larger, within the tolerance.
C19_Witness ==
    /\ Returned
    /\ scheduler_config.first_threshold >= 0 - Pow2[29]
    /\ \E i \in 3..Len(scheduler_thresholds) :
          /\ IncrementGrowth(scheduler_thresholds, i) > 0
          /\ IncrementGrowth(scheduler_thresholds, i) <= F32_0_001

\* ------------------------------------------------------------------ rerank

\* C20: when the reranker answers a non-empty candidate list with an empty
\* list, the search ends successfully (no error) and the output is the
\* empty list.
C20_EmptyRerankIsSuccess ==
    (rerank_reply = "answered" /\ reranked = <<>> /\ all_candidates # <<>>) =>
        /\ pc = "done"
        /\ emitted = "search_results"
        /\ final_results = <<>>

\* The reranker was called once on candidates of two layers and answered
\* with the empty list.
C20_Witness ==
    /\ rerank_reply = "answered"
    /\ reranked = <<>>
    /\ rerank_calls = 1
    /\ Len(all_candidates) >= 2
    /\ layer_index >= 1
    /\ pc = "done"

\* ---------------------------------------------------------------- scenarios

\* The ids of a list of results, as a set.
IdsOf(results) == {results[k].id : k \in DOMAIN results}

\* The premise of scenario A, at the end of the fan-out of layer 2:
\* first_threshold is 0.60, layer 1 answered distinct neighbours, and no
\* branch of layer 2 has anything to add (every task returned Ok with an
\* empty list).
ScenarioA ==
    /\ threshold = F32_0_60
    /\ AllDone
    /\ layer_index = 1
    /\ Len(current_layer_results) = Cardinality(IdsOf(current_layer_results))
    /\ \A j \in DOMAIN tasks : tasks[j].ok /\ tasks[j].related = <<>>

\* The search has stopped after layer 1: layer 2 was searched and accepted
\* nothing, and no further layer is started.
StoppedAfterLayer1 ==
    /\ pc = "rerank"
    /\ layer_index = 1
    /\ \A k \in DOMAIN found_layer : found_layer[k] = 1

AcceptedFrom(l, t) ==
    {k \in DOMAIN all_candidates : found_layer[k] = l /\ found_task[k] = t}

C23_TimeFilterUniform ==
    /\ Cardinality(time_range_args) <= 1
    /\ \A tr \in time_range_args :
          /\ tr = None <=> (after = None /\ before = None)
          /\ tr # None =>
                /\ Unwrap(tr).after.some <=> after.some
                /\ Unwrap(tr).before.some <=> before.some

\* Layer 1 and two branches of a deeper layer have searched, with --after
\* given and --before not.
C23_Witness ==
    /\ after.some
    /\ ~before.some
    /\ search_calls >= 3
    /\ layer_index >= 1
    /\ \E tr \in time_range_args : tr # None /\ Unwrap(tr).after.some

\* The bound was given and parse_datetime rejects it.
Malformed(bound) == bound.some /\ ~parse_datetime(Unwrap(bound)).ok

\* C24: when --after or --before is given and fails to parse, the search
\* ends in the error state without any search_by_vector, find_memory_by_id
\* or rerank call.
C24_MalformedBoundIsFatal ==
    ((Malformed(after) \/ Malformed(before)) /\ pc # "start") =>
        /\ pc = "error"
        /\ search_calls = 0
        /\ find_calls = 0
        /\ rerank_calls = 0
        /\ time_range_args = {}
        /\ all_candidates = <<>>
        /\ emitted = "none"

\* A search with a well-formed --after and a malformed --before has ended.
C24_Witness ==
    /\ after.some
    /\ ~Malformed(after)
    /\ Malformed(before)
    /\ pc = "error"

\* --------------------------------------------------------------- tree / flat

\* The tree built from the expansion so far.
tree == BuildTree(all_candidates, found_layer, found_by)

\* How many times id occurs in the sequence of ids.
Occurrences(ids, id) == Cardinality({k \in DOMAIN ids : ids[k] = id})

\* C25: the pre-order traversal of the tree of an expansion (the root left
\* out) has the same id multiset as the flat candidate list, and total_nodes
\* is the length of the flat list.
C25_TreeFlatEquivalence ==
    LET preorder == search_results_tree(tree)
        flat == [k \in DOMAIN all_candidates |-> all_candidates[k].id]
    IN  /\ \A id \in Ids : Occurrences(preorder, id) = Occurrences(flat, id)
        /\ Len(preorder) = Len(flat)
        /\ tree.total_nodes = Len(all_candidates)

\* A tree of three layers: a layer-3 node below a layer-2 node below a
\* layer-1 node.
C25_Witness ==
    /\ pc = "rerank"
    /\ \E k \in DOMAIN all_candidates : found_layer[k] = 3
    /\ \E i \in DOMAIN tree.root.children :
          \E j \in DOMAIN tree.root.children[i].children :
              tree.root.children[i].children[j].children # <<>>

\* ----------------------------------------------------------- layer-1 failure

\* C26: when the layer-1 search_by_vector call fails, the search ends in the
\* error state with no candidate recorded, no call of a deeper layer and no
\* rerank call.
C26_Layer1FailureIsFatal ==
    layer1_reply = "failed" =>
        /\ pc = "error"
        /\ all_candidates = <<>>
        /\ visited = {}
        /\ search_calls = 1
        /\ find_calls = 0
        /\ rerank_calls = 0
        /\ emitted = "none"

\* The layer-1 call has failed and the search has ended.
C26_Witness ==
    /\ layer1_reply = "failed"
    /\ search_calls = 1
    /\ pc # "start"

\* -------------------------------------------------------------- rerank call

\* C27: the reranker is called at most once, only when no call of the
\* expansion is pending and none follows, and never with an empty document
\* list; its documents are the contents of the candidate list, position by
\* position, and the candidate list is in first-seen order (it only grows at
\* its end, layer after layer).
C27_RerankCalledOnceOnCandidates ==
    /\ [](/\ rerank_calls <= 1
          /\ rerank_calls = 1 =>
                /\ documents # <<>>
                /\ Len(documents) = Len(all_candidates)
                /\ \A k \in DOMAIN all_candidates :
                      documents[k] = all_candidates[k].content
          /\ \A k \in DOMAIN all_candidates : \A l \in DOMAIN all_candidates :
                k < l => found_layer[k] <= found_layer[l])
    /\ [][/\ rerank_calls' > rerank_calls => ~InFlight /\ pc = "rerank"
          /\ rerank_calls >= 1 =>
                /\ search_calls' = search_calls
                /\ find_calls' = find_calls
          /\ Len(all_candidates') >= Len(all_candidates)
          /\ SubSeq(all_candidates', 1, Len(all_candidates)) = all_candidates]_vars

\* The reranker has been called on candidates of two layers with different
\* contents.
C27_Witness ==
    /\ rerank_calls = 1
    /\ Len(documents) >= 2
    /\ documents[1] # documents[2]
    /\ \E k \in DOMAIN found_layer : found_layer[k] >= 2

\* ------------------------------------------------------- the reranker's list

\* The positions of the reranker's items whose index is a position of the
\* candidate list.
ValidPositions == {k \in DOMAIN reranked : reranked[k].index + 1 \in DOMAIN all_candidates}

\* C28: when the reranker has answered, the search ends normally whatever the
\* indices are, and the output has one result per item with a valid index: an
\* item with an invalid index is skipped and nothing else is cut, whatever
\* limit is.
C28_OutputCountsValidItems ==
    rerank_reply = "answered" =>
        /\ pc = "done"
        /\ emitted = "search_results"
        /\ Len(final_results) = Cardinality(ValidPositions)
        /\ Len(final_results) <= Len(reranked)

\* The reranker returned the same valid index twice for limit 1: the output
\* is longer than limit and repeats a candidate.
C28_Witness ==
    /\ rerank_reply = "answered"
    /\ limit = 1
    /\ Len(reranked) = 2
    /\ reranked[1].index = reranked[2].index
    /\ Len(final_results) = 2
    /\ final_results[1].id = final_results[2].id

\* The reranker returned an index past the end of the candidate list: the
\* output is shorter than the reranker's list.
C28_ShorterThanRerankerList ==
    /\ rerank_reply = "answered"
    /\ ValidPositions # DOMAIN reranked
    /\ ValidPositions # {}
    /\ Len(final_results) < Len(reranked)

\* ------------------------------------------------------ truncation and dedup

\* The filtered results of the branch: the entries of the store's answer that
\* share a tag with the branch's memory.
FilteredWindow ==
    SelectSeq(branch_call.answer,
              LAMBDA r : r.tags \cap stored_tags[branch_call.seed] # {})

\* The ids visited before the branch's turn in the merge.
VisitedBefore == {branch_call.cands[k].id : k \in DOMAIN branch_call.cands}

\* The ids of the first n entries of the filtered results.
FirstIds(n) == {FilteredWindow[k].id : k \in 1..Min(n, Len(FilteredWindow))}

\* The ids the branch contributed, in the order of their acceptance.
Contributed == [k \in DOMAIN branch_merged.next |-> branch_merged.next[k].id]

\* The not-yet-visited ids among the first BranchLimit entries of the filtered
\* results, each once, in the order of the entries.
RECURSIVE FreshFrom(_, _)
FreshFrom(k, seen) ==
    IF k > Min(BranchLimit, Len(FilteredWindow)) THEN <<>>
    ELSE IF FilteredWindow[k].id \in seen THEN FreshFrom(k + 1, seen)
    ELSE <<FilteredWindow[k].id>> \o FreshFrom(k + 1, seen \cup {FilteredWindow[k].id})

\* An unvisited id that stands only after the first BranchLimit entries of
\* the filtered results is not accepted from the branch.
LaterEntriesNotAccepted ==
    \A k \in DOMAIN FilteredWindow :
        (k > BranchLimit /\ FilteredWindow[k].id \notin VisitedBefore \cup FirstIds(BranchLimit))
            => \A m \in DOMAIN Contributed : Contributed[m] # FilteredWindow[k].id

\* C29 as stated: the branch contributes exactly the not-yet-visited ids among
\* the first BranchLimit entries of its filtered results.
C29_ContributesAllFreshOfCut ==
    branch_pc = "merged" =>
        /\ {Contributed[m] : m \in DOMAIN Contributed} = FirstIds(BranchLimit) \ VisitedBefore
        /\ LaterEntriesNotAccepted

\* C29, amended: the branch contributes the not-yet-visited ids among the first
\* BranchLimit entries of its filtered results, in order, as many as the
\* candidate list takes until it holds max_nodes candidates; an unvisited id
\* at a later position of the window is not accepted from the branch.
C29_TruncationPrecedesDedup ==
    branch_pc = "merged" =>
        LET fresh == FreshFrom(1, VisitedBefore)
            room == max_nodes - Len(branch_call.cands)
        IN  /\ Contributed = SubSeq(fresh, 1, Min(room, Len(fresh)))
            /\ LaterEntriesNotAccepted

\* A branch whose window holds an unvisited id only at its third position:
\* the id is not accepted although the branch contributed one node and the
\* candidate list has room.
C29_Witness ==
    /\ branch_pc = "merged"
    /\ Len(FilteredWindow) > BranchLimit
    /\ FilteredWindow[BranchLimit + 1].id \notin VisitedBefore \cup FirstIds(BranchLimit)
    /\ Len(Contributed) = 1
    /\ Len(branch_merged.cands) < max_nodes

\* ------------------------------------------------------------ memories without tags

\* The positions of the candidates accepted at layer 1.
Layer1Positions == {k \in DOMAIN all_candidates : found_layer[k] = 1}

\* C30: require_tag_overlap is true in every search; a candidate accepted at
\* layer 2 or deeper has a tag and so has the memory of the branch that found
\* it (a memory without tags has no children, a candidate without tags is not
\* accepted there); and when no layer-1 candidate has a tag, every candidate
\* is a layer-1 candidate and the documents of the rerank call are theirs.
C30_UntaggedMemoriesStopExpansion ==
    /\ search_config.require_tag_overlap
    /\ \A k \in DOMAIN all_candidates :
           found_layer[k] >= 2 =>
               /\ all_candidates[k].tags # {}
               /\ stored_tags[found_by[k]] # {}
    /\ (\A k \in Layer1Positions : stored_tags[all_candidates[k].id] = {}) =>
           /\ Layer1Positions = DOMAIN all_candidates
           /\ rerank_calls = 1 => Len(documents) = Cardinality(Layer1Positions)

\* Layer 1 accepted only a memory without tags; its branch was looked up and
\* searched in every layer the thresholds allow, and the reranker got the
\* layer-1 candidate alone.
C30_Witness ==
    /\ rerank_calls = 1
    /\ all_candidates # <<>>
    /\ \A k \in DOMAIN all_candidates : all_candidates[k].tags = {}
    /\ find_calls >= 1
    /\ search_calls >= 2
    /\ Len(documents) = 1
====
